---- MODULE Spec2Model ----
(***************************************************************************)
(* Model of the live-trade engine TradingStrategy of                       *)
(* src/flattrade_noren_api.py: the decision loop (run), the position       *)
(* lifecycle (enter_trade, manage_positions, close_position, manual_exit), *)
(* the indicator feed run by the dashboard thread (update_dashboard_thread,*)
(* update_instrument_data) and the broker / quote service they call.       *)
(*                                                                         *)
(* Prices are integers (rupees).  A percentage is an integer number of     *)
(* percent.  PnL is kept exactly, scaled by PnlScale, because the          *)
(* commission rate is 3/10000.  VWAP and EMA values are exact fractions    *)
(* [n, d]; a fraction with d = 0 stands for a column the frame lacks.      *)
(***************************************************************************)
EXTENDS Integers, Sequences, FiniteSets, TLC

\* ---------------------------------------------------------------- bounds
\* Entries made in one session (caps trade_counter).
MaxTrades == 2
\* Rows an instrument's CSV series may grow to.
MaxRows == 5
\* Calendar days a series handed to the detector may span.
MaxDays == 2
\* Closes booked in one session of the ledger specification.
MaxCloses == 23
\* Losing trades the ledger of the ledger specification holds at one time.
MaxLosses == 2

\* ------------------------------------------------------- program constants
TP_PERCENT == 60
TRAILING_SL_PERCENT == 30
EMA_PERIOD == 5
ENTRY_DELAY == 30
LOT_NIFTY == 75
LOT_BANKNIFTY == 25
MAX_DAILY_LOSS == 5000
\* COMMISSION = 0.0003 = CommissionNum / PnlScale
CommissionNum == 3
PnlScale == 10000
\* The closed-trade ledger keeps the last LedgerCap records.
LedgerCap == 20
\* The values SL_PERCENT is configured to: the shipped 0 and a positive one.
SlPercentChoices == {0, 40}

None == "None"
NoKey == -1

\* self.instruments after initialize_instruments: distinct symbols, each
\* with the lot size of its underlying.
Instruments ==
    << [symbol |-> "NIFTY_C", lot_size |-> LOT_NIFTY],
       [symbol |-> "BANKNIFTY_P", lot_size |-> LOT_BANKNIFTY] >>

Symbols == {Instruments[i].symbol : i \in 1..Len(Instruments)}

\* ------------------------------------------------------------- fractions
Frac(n, d) == [n |-> n, d |-> d]
NoCol == Frac(0, 0)
HasCol(f) == f.d > 0
FLt(a, b) == a.n * b.d < b.n * a.d
FLe(a, b) == a.n * b.d <= b.n * a.d
FOfInt(x) == Frac(x, 1)

\* ------------------------------------------------ the quote service (api)
\* What api.get_quotes / get_quote can give back: an exception, nothing
\* (no token, or an empty reply), or a dict.  A dict carries 'lp', 'o', 'h',
\* 'l', 'v'; the keys 'high' and 'low' that manage_positions reads are
\* present only in some replies (NoKey: the key is missing).
QRaise == [kind |-> "raise", stat |-> "", lp |-> NoKey, o |-> NoKey, h |-> NoKey,
           l |-> NoKey, v |-> NoKey, high |-> NoKey, low |-> NoKey]
QNone == [kind |-> "none", stat |-> "", lp |-> NoKey, o |-> NoKey, h |-> NoKey,
          l |-> NoKey, v |-> NoKey, high |-> NoKey, low |-> NoKey]
QNotOk == [kind |-> "dict", stat |-> "Not_Ok", lp |-> NoKey, o |-> NoKey, h |-> NoKey,
           l |-> NoKey, v |-> NoKey, high |-> NoKey, low |-> NoKey]
QFlat == [kind |-> "dict", stat |-> "Ok", lp |-> 100, o |-> 100, h |-> 100,
          l |-> 100, v |-> 1, high |-> NoKey, low |-> NoKey]
QUp == [kind |-> "dict", stat |-> "Ok", lp |-> 170, o |-> 100, h |-> 170,
        l |-> 100, v |-> 1, high |-> NoKey, low |-> NoKey]
QDown == [kind |-> "dict", stat |-> "Ok", lp |-> 40, o |-> 100, h |-> 100,
          l |-> 40, v |-> 0, high |-> NoKey, low |-> NoKey]
QWide == [kind |-> "dict", stat |-> "Ok", lp |-> 100, o |-> 100, h |-> 100,
          l |-> 100, v |-> 1, high |-> 300, low |-> 10]

\* The replies drawn for a fetch: a rise, a fall below every stop, and a reply
\* at the old price whose 'high' and 'low' span every stop and target.
OkQuotes == {QUp, QDown, QWide}
Responses == {QRaise, QNone, QNotOk} \cup OkQuotes
\* The replies drawn for a fetch of the confirmation window, other than an
\* exception: a dict without 'lp', a dict with 'lp'.
PollResponses == {QNotOk, QWide}
\* The replies drawn for the fetch of a manual close, other than an exception:
\* nothing, which closes at the entry price, and a fall.
ManualResponses == {QNone, QDown}

\* quote.get(key, default)
Get(value, default) == IF value = NoKey THEN default ELSE value

\* `not quote or quote.get('stat') != 'Ok'`
QuoteUsable(q) == q.kind = "dict" /\ q.stat = "Ok"

\* -------------------------------------------------------- indicator engine
\* A row of an instrument's frame.  datetime is <<date, time>>.
Row(dt, q) ==
    LET curr == Get(q.lp, 0) IN
    [datetime |-> dt, open |-> Get(q.o, curr), high |-> Get(q.h, curr),
     low |-> Get(q.l, curr), close |-> curr, volume |-> Get(q.v, 0),
     vwap |-> NoCol, ema |-> NoCol]

DateOf(r) == r.datetime[1]

\* df.loc[df["volume"] == 0, "volume"] = 1
Vol(r) == IF r.volume = 0 THEN 1 ELSE r.volume

\* A cumulative volume that runs over the whole series, across date changes.
CumVolAllDays(rows, i) ==
    LET F[j \in 0..i] == IF j = 0 THEN 0 ELSE F[j - 1] + Vol(rows[j])
    IN F[i]

\* df.groupby("date")["volume"].cumsum() at row i
CumVol(rows, i) ==
    LET SameDay(j) == DateOf(rows[j]) = DateOf(rows[i])
        F[j \in 0..i] == IF j = 0 THEN 0
                         ELSE F[j - 1] + (IF SameDay(j) THEN Vol(rows[j]) ELSE 0)
    IN F[i]

\* 3 * df.groupby("date")["tpv"].cumsum() at row i (typical price is a third of
\* high + low + close)
CumTpv3(rows, i) ==
    LET SameDay(j) == DateOf(rows[j]) = DateOf(rows[i])
        F[j \in 0..i] ==
            IF j = 0 THEN 0
            ELSE F[j - 1] + (IF SameDay(j)
                             THEN (rows[j].high + rows[j].low + rows[j].close) * Vol(rows[j])
                             ELSE 0)
    IN F[i]

calculate_vwap(df) ==
    IF Len(df) < 2 THEN df
    ELSE [i \in 1..Len(df) |->
            [df[i] EXCEPT !.volume = Vol(df[i]),
                          !.vwap = Frac(CumTpv3(df, i), 3 * CumVol(df, i))]]

\* k = 2 / (span + 1) in lowest terms
RECURSIVE Gcd(_, _)
Gcd(a, b) == IF b = 0 THEN a ELSE Gcd(b, a % b)
KNum == 2 \div Gcd(2, EMA_PERIOD + 1)
\* A smoothing factor of 1 / span.
KDenSpan == EMA_PERIOD
KDen == (EMA_PERIOD + 1) \div Gcd(2, EMA_PERIOD + 1)

\* df["close"].ewm(span=EMA_PERIOD, adjust=False).mean() at row i
EmaAt(df, i) ==
    LET E[j \in 1..i] ==
            IF j = 1 THEN FOfInt(df[1].close)
            ELSE Frac(E[j - 1].n * (KDen - KNum) + KNum * df[j].close * E[j - 1].d,
                      E[j - 1].d * KDen)
    IN E[i]

calculate_ema(df) ==
    [i \in 1..Len(df) |-> [df[i] EXCEPT !.ema = EmaAt(df, i)]]

\* update_instrument_data, line 519: the frame with both indicator columns.
WithIndicators(df) == calculate_ema(calculate_vwap(df))

\* A detector that asks the previous sample for a strict inequality between
\* EMA and VWAP.
detect_signal_strict(df) ==
    IF Len(df) < 2 THEN <<None, None>>
    ELSE LET prev == df[Len(df) - 1]
             curr == df[Len(df)]
             close == FOfInt(curr.close)
         IN IF FLt(prev.ema, prev.vwap) /\ FLt(curr.vwap, curr.ema)
               /\ FLt(curr.vwap, close) /\ FLt(curr.ema, close)
            THEN <<"BUY_CALL", curr.close>>
            ELSE IF FLt(prev.vwap, prev.ema) /\ FLt(curr.ema, curr.vwap)
                    /\ FLt(close, curr.vwap) /\ FLt(close, curr.ema)
            THEN <<"BUY_PUT", curr.close>>
            ELSE <<None, None>>

\* A detector that does not look at the previous sample: it answers on the
\* level of EMA against VWAP, not on the crossing.
detect_signal_level(df) ==
    IF Len(df) < 2 THEN <<None, None>>
    ELSE LET curr == df[Len(df)]
             close == FOfInt(curr.close)
         IN IF FLt(curr.vwap, curr.ema) /\ FLt(curr.vwap, close) /\ FLt(curr.ema, close)
            THEN <<"BUY_CALL", curr.close>>
            ELSE IF FLt(curr.ema, curr.vwap) /\ FLt(close, curr.vwap)
                    /\ FLt(close, curr.ema)
            THEN <<"BUY_PUT", curr.close>>
            ELSE <<None, None>>

\* detect_signal: (signal, price); "KeyError" when a column it reads is missing.
detect_signal(df) ==
    IF Len(df) < 2 THEN <<None, None>>
    ELSE LET prev == df[Len(df) - 1]
             curr == df[Len(df)]
             close == FOfInt(curr.close)
         IN IF ~(HasCol(prev.ema) /\ HasCol(prev.vwap) /\ HasCol(curr.ema) /\ HasCol(curr.vwap))
            THEN <<"KeyError", None>>
            ELSE IF FLe(prev.ema, prev.vwap) /\ FLt(curr.vwap, curr.ema)
                    /\ FLt(curr.vwap, close) /\ FLt(curr.ema, close)
            THEN <<"BUY_CALL", curr.close>>
            ELSE IF FLe(prev.vwap, prev.ema) /\ FLt(curr.ema, curr.vwap)
                    /\ FLt(close, curr.vwap) /\ FLt(close, curr.ema)
            THEN <<"BUY_PUT", curr.close>>
            ELSE <<None, None>>

\* ----------------------------------------------------------------- state
VARIABLES
    clock,            \* wall clock against the 09:15-15:30 window: PRE, OPEN, POST
    SL_PERCENT,       \* Config.SL_PERCENT, in percent
    pc,               \* where the decision loop (run) stands
    exitPath,         \* how run left its while loop
    running,          \* self.running
    positions,        \* self.positions: pos_id -> position
    pnl,              \* self.pnl, scaled by PnlScale
    trades,           \* self.trades
    trade_counter,    \* self.trade_counter
    last_signal,      \* self.last_signal
    closed_trades,    \* self.closed_trades
    mq,               \* manage_positions: the snapshot entries still to visit
    si,               \* run: index of the instrument the signal sweep is at
    pending,          \* enter_trade: its arguments and the seconds elapsed
    data_cache,       \* self.data_cache: symbol -> frame
    instrument_data,  \* self.instrument_data: symbol -> snapshot
    csv,              \* the CSV file of each symbol
    dpc,              \* where the dashboard thread stands
    di,               \* update_dashboard_thread: index of the instrument of its sweep
    dit,              \* display_dashboard: the iterator over self.positions.items()
    orders,           \* the broker's book: the orders it accepted
    frame,            \* a series handed to the detector sample by sample
    signals,          \* what detect_signal returned after each sample of frame
    vwap_pc,          \* VWAPStrategy (strategy.py): where its run loop stands
    vwap_positions,   \* VWAPStrategy: self.positions, position_id -> position
    daily_pnl,        \* VWAPStrategy: self.daily_pnl
    vwap_last_signal, \* VWAPStrategy: self.last_signal
    daily_trades,     \* VWAPStrategy: self.daily_trades
    vwap_orders,      \* VWAPStrategy: the orders the broker accepted from it
    selection         \* fetch_options_intraday1: a call of nearest_strikes and its result

vars == <<clock, SL_PERCENT, pc, exitPath, running, positions, pnl, trades,
          trade_counter, last_signal, closed_trades, mq, si, pending,
          data_cache, instrument_data, csv, dpc, di, dit, orders, frame, signals,
          vwap_pc, vwap_positions, daily_pnl, vwap_last_signal, daily_trades,
          vwap_orders, selection>>

loopVars == <<pc, exitPath, running, mq, si, pending>>
bookVars == <<positions, pnl, closed_trades, orders>>
entryVars == <<trades, trade_counter, last_signal>>
feedVars == <<data_cache, csv>>
dashVars == <<dpc, di, dit>>
seriesVars == <<frame, signals>>
strategyVars == <<vwap_pc, vwap_positions, daily_pnl, vwap_last_signal, daily_trades,
                  vwap_orders>>
strikeVars == <<selection>>

\* f with key k set to v
Put(f, k, v) == [x \in DOMAIN f \cup {k} |-> IF x = k THEN v ELSE f[x]]
\* f without key k
Del(f, k) == [x \in DOMAIN f \ {k} |-> f[x]]

\* in_trading_hours()
in_trading_hours == clock = "OPEN"

\* No iteration over self.positions is in progress.
NoIter == [size |-> 0, idx |-> 0]

\* No call of nearest_strikes has been made.
NoSelection == [available |-> {}, atm |-> 0, n |-> 0, strikes |-> << >>]

\* enter_trade is not running.
NoPending == [signal |-> None, symbol |-> None, price |-> 0, lot |-> 0, elapsed |-> 0]

\* The history already on disk when the session starts: rows of the day
\* before and of today, all at 100.
History ==
    << Row(<<1, 1>>, QFlat), Row(<<1, 2>>, QFlat),
       Row(<<2, 1>>, QFlat), Row(<<2, 2>>, QFlat) >>

Init ==
    /\ clock = "PRE"
    /\ SL_PERCENT \in SlPercentChoices
    /\ pc = "top"
    /\ exitPath = None
    /\ running = TRUE
    /\ positions = << >>
    /\ pnl = 0
    /\ trades = 0
    /\ trade_counter = 1
    /\ last_signal = None
    /\ closed_trades = << >>
    /\ mq = << >>
    /\ si = 1
    /\ pending = NoPending
    /\ data_cache = << >>
    /\ instrument_data = << >>
    /\ csv = [s \in Symbols |-> History]
    /\ dpc = "feed"
    /\ di = 1
    /\ dit = NoIter
    /\ orders = {}
    /\ frame = << >>
    /\ signals = << >>
    /\ vwap_pc = "top"
    /\ vwap_positions = << >>
    /\ daily_pnl = 0
    /\ vwap_last_signal = None
    /\ daily_trades = 0
    /\ vwap_orders = {}
    /\ selection = NoSelection

\* ------------------------------------------------------------ the broker
\* place_order(symbol, qty, action): the order id when the contract is found
\* and the broker answers 'Ok', None otherwise (every exception is swallowed).
\* accepted is the broker's answer.
NextOrderId == Cardinality(orders) + 1
place_order(symbol, action, accepted) ==
    IF accepted THEN NextOrderId ELSE 0
BookAfter(symbol, action, accepted) ==
    IF accepted
    THEN orders \cup {[id |-> NextOrderId, symbol |-> symbol, side |-> action]}
    ELSE orders

\* ------------------------------------------------------ position lifecycle
PctOf(price, pct) == (price * pct) \div 100

\* A stop at entry without the 50% default: with no stop percentage the stop
\* sits at the entry price itself.
InitialStopNoFloor(price) == PctOf(price, 100 - SL_PERCENT)

\* The stop set at entry (enter_trade, 'sl' and 'current_sl').
InitialStop(price) ==
    IF SL_PERCENT > 0 THEN PctOf(price, 100 - SL_PERCENT) ELSE PctOf(price, 50)

\* The dict enter_trade stores.
NewPosition(signal, symbol, price, lot, order_id) ==
    [trade_no |-> trade_counter,
     symbol |-> symbol,
     type |-> IF signal = "BUY_CALL" THEN "CALL" ELSE "PUT",
     entry |-> price,
     qty |-> lot,
     order_id |-> order_id,
     sl |-> InitialStop(price),
     tp |-> PctOf(price, 100 + TP_PERCENT),
     high |-> price,
     low |-> price,
     current_sl |-> InitialStop(price),
     max_mtm |-> 0,
     min_mtm |-> 0,
     status |-> "OPEN"]

Max(a, b) == IF a >= b THEN a ELSE b
Min(a, b) == IF a <= b THEN a ELSE b

\* The quote fields manage_positions reads.
TickCurr(q) == Get(q.lp, 0)
TickHigh(q) == Get(q.high, TickCurr(q))
TickLow(q) == Get(q.low, TickCurr(q))

\* A ratchet switched on by the trailing percentage alone.
TrailingActiveWithoutBase == TRAILING_SL_PERCENT > 0

\* manage_positions, lines 354-361: water marks, mark-to-market, ratchet.
TrailingActive == TRAILING_SL_PERCENT > 0 /\ SL_PERCENT > 0

\* A stop recomputed from the high of the latest quote alone, without the
\* max with the stop held so far.
RatchetFromQuote(pos, q, hi) == PctOf(TickHigh(q), 100 - TRAILING_SL_PERCENT)

\* manage_positions, lines 360-361: trail_sl from the high-water mark hi, and
\* the max with the stop held so far.
Ratchet(pos, q, hi) == Max(pos.current_sl, PctOf(hi, 100 - TRAILING_SL_PERCENT))


\* A tick that also recomputes the stop and target levels from the latest
\* price.
TickedRebased(pos, q) ==
    [pos EXCEPT
       !.high = Max(pos.high, TickHigh(q)),
       !.low = Min(pos.low, TickLow(q)),
       !.sl = InitialStop(TickCurr(q)),
       !.tp = PctOf(TickCurr(q), 100 + TP_PERCENT)]

\* A tick that takes the water marks from the latest quote alone.
TickedLastQuote(pos, q) ==
    [pos EXCEPT
       !.high = TickHigh(q),
       !.low = TickLow(q),
       !.max_mtm = Max(pos.max_mtm, (TickHigh(q) - pos.entry) * pos.qty),
       !.min_mtm = Min(pos.min_mtm, (TickLow(q) - pos.entry) * pos.qty)]

Ticked(pos, q) ==
    LET hi == Max(pos.high, TickHigh(q))
        lo == Min(pos.low, TickLow(q))
    IN [pos EXCEPT
          !.high = hi,
          !.low = lo,
          !.max_mtm = Max(pos.max_mtm, (hi - pos.entry) * pos.qty),
          !.min_mtm = Min(pos.min_mtm, (lo - pos.entry) * pos.qty),
          !.current_sl = IF TrailingActive THEN Ratchet(pos, q, hi) ELSE pos.current_sl]

\* manage_positions, lines 363-369: the exit decision on the ticked position.
NoExit == [reason |-> None, price |-> 0, status |-> None]
ExitDecision(pos, q) ==
    IF SL_PERCENT > 0 /\ TickLow(q) <= pos.current_sl
    THEN [reason |-> "SL", price |-> pos.current_sl, status |-> "SL_HIT"]
    ELSE IF TickHigh(q) >= pos.tp
    THEN [reason |-> "TP", price |-> pos.tp, status |-> "TGT_HIT"]
    ELSE IF ~in_trading_hours
    THEN [reason |-> "EOD", price |-> TickCurr(q), status |-> "EOD_CLOSE"]
    ELSE NoExit

\* The price difference on the quantity, with no commission taken off.
ClosePnlNoCommission(pos, price) == (price - pos.entry) * pos.qty * PnlScale

\* close_position, lines 385-386, scaled by PnlScale.
ClosePnl(pos, price) ==
    (price - pos.entry) * pos.qty * PnlScale
    - (pos.entry + price) * pos.qty * CommissionNum

\* A ledger record whose 'pnl' leaves the commission out.
TradeRecordGross(pos, price, reason, status) ==
    [trade_no |-> pos.trade_no, symbol |-> pos.symbol, type |-> pos.type,
     entry |-> pos.entry, exit |-> price, qty |-> pos.qty,
     pnl |-> (price - pos.entry) * pos.qty * PnlScale,
     mtm |-> (price - pos.entry) * pos.qty,
     max_mtm |-> pos.max_mtm, min_mtm |-> pos.min_mtm,
     reason |-> reason, status |-> status]

\* close_position, lines 389-404: the record of a close.
TradeRecord(pos, price, reason, status) ==
    [trade_no |-> pos.trade_no, symbol |-> pos.symbol, type |-> pos.type,
     entry |-> pos.entry, exit |-> price, qty |-> pos.qty,
     pnl |-> ClosePnl(pos, price),
     mtm |-> (price - pos.entry) * pos.qty,
     max_mtm |-> pos.max_mtm, min_mtm |-> pos.min_mtm,
     reason |-> reason, status |-> status]

\* A ledger that, when full, keeps its oldest records and drops the new one.
AppendedKeepsOldest(ledger, rec) ==
    LET all == Append(ledger, rec)
    IN IF Len(all) > LedgerCap THEN SubSeq(all, 1, LedgerCap) ELSE all

\* self.closed_trades after append and the cut to the last LedgerCap.
Appended(ledger, rec) ==
    LET all == Append(ledger, rec)
    IN IF Len(all) > LedgerCap
       THEN SubSeq(all, Len(all) - LedgerCap + 1, Len(all))
       ELSE all

\* Whether close_position goes on to book the close once its sell order came
\* back: the code ignores what place_order returned.
CloseProceeds(accepted) == TRUE

\* A close that books the PnL and the record and leaves the position open.
close_position_keeps_open(posns, pos_id, reason, price, status, accepted) ==
    LET pos == posns[pos_id] IN
    /\ orders' = BookAfter(pos.symbol, "S", accepted)
    /\ pnl' = pnl + ClosePnl(pos, price)
    /\ closed_trades' = Appended(closed_trades, TradeRecord(pos, price, reason, status))
    /\ positions' = posns

\* close_position(pos_id, reason, price, status) on the position as ticked;
\* accepted is the broker's answer to the sell order.  An id that is not
\* open returns at once (lines 375-376).
close_position(posns, pos_id, reason, price, status, accepted) ==
    IF pos_id \notin DOMAIN posns
    THEN positions' = posns /\ UNCHANGED <<orders, pnl, closed_trades>>
    ELSE LET pos == posns[pos_id] IN
         /\ orders' = BookAfter(pos.symbol, "S", accepted)
         /\ IF CloseProceeds(accepted)
            THEN /\ pnl' = pnl + ClosePnl(pos, price)
                 /\ closed_trades' =
                       Appended(closed_trades, TradeRecord(pos, price, reason, status))
                 /\ positions' = Del(posns, pos_id)
            ELSE /\ positions' = posns
                 /\ UNCHANGED <<pnl, closed_trades>>

\* list(self.positions.items()): the ids in insertion order, which is the
\* order of trade_no.
RECURSIVE Items(_)
Items(posns) ==
    IF DOMAIN posns = {} THEN << >>
    ELSE LET first == CHOOSE id \in DOMAIN posns :
                          \A o \in DOMAIN posns : posns[id].trade_no <= posns[o].trade_no
         IN <<first>> \o Items(Del(posns, first))

\* ------------------------------------------------------ the decision loop
\* Leaving the while loop of run: the finally clause clears self.running.
Stop(path) ==
    /\ pc' = "stopped"
    /\ exitPath' = path
    /\ running' = FALSE
    /\ mq' = << >>
    /\ si' = 1
    /\ pending' = NoPending

\* The call of manage_positions: it takes its snapshot and visits it; with
\* nothing open the signal sweep is next.
EnterManage(posns) ==
    /\ mq' = Items(posns)
    /\ pc' = IF Items(posns) = << >> THEN "scan" ELSE "manage"
    /\ si' = 1
    /\ pending' = NoPending
    /\ UNCHANGED <<exitPath, running>>

\* run, line 677: outside the trading-hours window the cycle is skipped.
LoopSleep ==
    /\ pc = "top"
    /\ ~in_trading_hours
    /\ pc' = "sleep"
    /\ UNCHANGED <<clock, SL_PERCENT, strategyVars, strikeVars, seriesVars, exitPath, running, mq, si, pending, bookVars,
                   entryVars, feedVars, instrument_data, dashVars>>

\* time.sleep(60) is over; continue.
LoopWake ==
    /\ pc = "sleep"
    /\ pc' = "top"
    /\ UNCHANGED <<clock, SL_PERCENT, strategyVars, strikeVars, seriesVars, exitPath, running, mq, si, pending, bookVars,
                   entryVars, feedVars, instrument_data, dashVars>>

\* The daily-loss test of run, line 681.
LossLimitReached == pnl <= -(MAX_DAILY_LOSS * PnlScale)

\* run, lines 681-683: the daily-loss limit ends the loop.
LoopLossLimit ==
    /\ pc = "top"
    /\ in_trading_hours
    /\ LossLimitReached
    /\ Stop("LOSS_LIMIT")
    /\ UNCHANGED <<clock, SL_PERCENT, strategyVars, strikeVars, seriesVars, bookVars, entryVars, feedVars, instrument_data,
                   dashVars>>

\* run, lines 685-689: the Q key ends the loop.
LoopQuit ==
    /\ pc = "top"
    /\ in_trading_hours
    /\ ~LossLimitReached
    /\ Stop("QUIT")
    /\ UNCHANGED <<clock, SL_PERCENT, strategyVars, strikeVars, seriesVars, bookVars, entryVars, feedVars, instrument_data,
                   dashVars>>

\* run, lines 690-691: the M key calls manual_exit.
LoopManualKey ==
    /\ pc = "top"
    /\ in_trading_hours
    /\ ~LossLimitReached
    /\ pc' = "manual"
    /\ UNCHANGED <<clock, SL_PERCENT, strategyVars, strikeVars, seriesVars, exitPath, running, mq, si, pending, bookVars,
                   entryVars, feedVars, instrument_data, dashVars>>

\* run, line 693 with no key pressed: manage_positions starts.
LoopManage ==
    /\ pc = "top"
    /\ in_trading_hours
    /\ ~LossLimitReached
    /\ EnterManage(positions)
    /\ UNCHANGED <<clock, SL_PERCENT, strategyVars, strikeVars, seriesVars, bookVars, entryVars, feedVars, instrument_data,
                   dashVars>>

\* manual_exit with nothing open, or the choice 0 or a number that matches
\* no position: nothing is closed, and run goes on to manage_positions.
ManualNone ==
    /\ pc = "manual"
    /\ EnterManage(positions)
    /\ UNCHANGED <<clock, SL_PERCENT, strategyVars, strikeVars, seriesVars, bookVars, entryVars, feedVars, instrument_data,
                   dashVars>>

\* manual_exit, lines 421-425: a quote fetch of the listing raises; nothing
\* in manual_exit catches it and it leaves run through `except Exception`.
ManualListingRaises ==
    /\ pc = "manual"
    /\ DOMAIN positions # {}
    /\ Stop("EXCEPTION")
    /\ UNCHANGED <<clock, SL_PERCENT, strategyVars, strikeVars, seriesVars, bookVars, entryVars, feedVars, instrument_data,
                   dashVars>>

\* manual_exit, lines 431-434: close_position(pos_id, "MANUAL", None, ...)
\* whose own quote fetch raises: close_position catches it, nothing is closed.
ManualCloseRaises ==
    /\ pc = "manual"
    /\ DOMAIN positions # {}
    /\ EnterManage(positions)
    /\ UNCHANGED <<clock, SL_PERCENT, strategyVars, strikeVars, seriesVars, bookVars, entryVars, feedVars, instrument_data,
                   dashVars>>

\* manual_exit, lines 431-434: the chosen position is closed at the quoted
\* price, or at its entry price when there is no quote or no 'lp'.
ManualClose ==
    /\ pc = "manual"
    /\ \E id \in DOMAIN positions, q \in ManualResponses, accepted \in BOOLEAN :
          /\ close_position(positions, id, "MANUAL", Get(q.lp, positions[id].entry),
                            "MANUAL_CLOSE", accepted)
          /\ EnterManage(positions')
    /\ UNCHANGED <<clock, SL_PERCENT, strategyVars, strikeVars, seriesVars, entryVars, feedVars, instrument_data, dashVars>>

\* After an entry of the snapshot: the next one, or the signal sweep.
ManageNext ==
    /\ mq' = Tail(mq)
    /\ pc' = IF Tail(mq) = << >> THEN "scan" ELSE "manage"
    /\ si' = 1
    /\ pending' = NoPending
    /\ UNCHANGED <<exitPath, running>>

\* manage_positions, line 347: the quote fetch raises; neither
\* manage_positions nor the loop body catches it.
ManageRaises ==
    /\ pc = "manage"
    /\ Stop("EXCEPTION")
    /\ UNCHANGED <<clock, SL_PERCENT, strategyVars, strikeVars, seriesVars, bookVars, entryVars, feedVars, instrument_data,
                   dashVars>>

\* manage_positions, line 348: no usable quote, the position is skipped.
ManageSkip ==
    /\ pc = "manage"
    /\ ManageNext
    /\ UNCHANGED <<clock, SL_PERCENT, strategyVars, strikeVars, seriesVars, bookVars, entryVars, feedVars, instrument_data,
                   dashVars>>

\* manage_positions, lines 350-372, on the reply q: the position is ticked,
\* and closed when an exit condition holds.
ManageTickOn(q) ==
    /\ pc = "manage"
    /\ LET id == Head(mq)
           pos == Ticked(positions[id], q)
           ticked == [positions EXCEPT ![id] = pos]
           exit == ExitDecision(pos, q)
       IN IF exit.reason # None
          THEN \E accepted \in BOOLEAN :
                  close_position(ticked, id, exit.reason, exit.price, exit.status, accepted)
          ELSE /\ positions' = ticked
               /\ UNCHANGED <<pnl, closed_trades, orders>>
    /\ ManageNext
    /\ UNCHANGED <<clock, SL_PERCENT, strategyVars, strikeVars, seriesVars, entryVars, feedVars, instrument_data, dashVars>>

ManageTick == \E q \in OkQuotes : ManageTickOn(q)

\* After an instrument of the signal sweep: the next one, or time.sleep(5)
\* and the next cycle.
ScanNext ==
    /\ si' = IF si = Len(Instruments) THEN 1 ELSE si + 1
    /\ pc' = IF si = Len(Instruments) THEN "top" ELSE "scan"
    /\ pending' = NoPending
    /\ UNCHANGED <<exitPath, running, mq>>

\* run, line 697
SeriesReady(symbol) ==
    symbol \in DOMAIN data_cache /\ Len(data_cache[symbol]) >= EMA_PERIOD

\* run, line 702
has_position(symbol) == \E id \in DOMAIN positions : positions[id].symbol = symbol

\* An entry test without the flat-instrument and debounce conditions of line
\* 704: every detected signal is acted on.
ActsOnEverySignal(symbol, signal) == TRUE

\* An entry test with the flat-instrument condition of line 704 only: the
\* signal is not compared with the last acted-on one.
ActsOnWhenFlat(symbol, signal) == ~has_position(symbol)

\* run, line 704: whether a detected signal is acted on.
ActsOn(symbol, signal) == ~has_position(symbol) /\ signal # last_signal

\* run, lines 697-704 for one instrument: the signal to enter on, if any.
EntrySignal(symbol) ==
    IF ~SeriesReady(symbol) THEN <<None, None>>
    ELSE LET sig == detect_signal(data_cache[symbol])
         IN IF sig[1] \in {"BUY_CALL", "BUY_PUT"} /\ ~ActsOn(symbol, sig[1])
            THEN <<None, None>>
            ELSE sig

\* run, line 699: detect_signal reads a column the cached frame lacks; the
\* KeyError leaves run through `except Exception`.
ScanRaises ==
    /\ pc = "scan"
    /\ EntrySignal(Instruments[si].symbol)[1] = "KeyError"
    /\ Stop("EXCEPTION")
    /\ UNCHANGED <<clock, SL_PERCENT, strategyVars, strikeVars, seriesVars, bookVars, entryVars, feedVars, instrument_data,
                   dashVars>>

\* run, lines 695-704: nothing to enter on this instrument.
ScanSkip ==
    /\ pc = "scan"
    /\ \/ EntrySignal(Instruments[si].symbol)[1] = None
       \/ /\ EntrySignal(Instruments[si].symbol)[1] \in {"BUY_CALL", "BUY_PUT"}
          /\ trade_counter > MaxTrades
    /\ ScanNext
    /\ UNCHANGED <<clock, SL_PERCENT, strategyVars, strikeVars, seriesVars, bookVars, entryVars, feedVars, instrument_data,
                   dashVars>>

\* run, line 705: enter_trade is called and opens its confirmation window.
ScanEnter ==
    /\ pc = "scan"
    /\ EntrySignal(Instruments[si].symbol)[1] \in {"BUY_CALL", "BUY_PUT"}
    /\ trade_counter <= MaxTrades
    /\ pc' = "confirm"
    /\ pending' = [signal |-> EntrySignal(Instruments[si].symbol)[1],
                   symbol |-> Instruments[si].symbol,
                   price |-> EntrySignal(Instruments[si].symbol)[2],
                   lot |-> Instruments[si].lot_size,
                   elapsed |-> 0]
    /\ UNCHANGED <<clock, SL_PERCENT, strategyVars, strikeVars, seriesVars, exitPath, running, mq, si, bookVars, entryVars,
                   feedVars, instrument_data, dashVars>>

\* What one round of the confirmation loop (a quote fetch and time.sleep(1))
\* can take, in seconds.
PollSeconds == {ENTRY_DELAY \div 2, ENTRY_DELAY}

\* A window test that lets enter_trade go to its order at once.
WindowOverAtOnce == TRUE

\* enter_trade, line 305: the test of the confirmation loop fails, ENTRY_DELAY
\* seconds have gone by since the call.
WindowOver == pending.elapsed >= ENTRY_DELAY

\* enter_trade, line 307: the quote fetch of the window raises.
ConfirmRaises ==
    /\ pc = "confirm"
    /\ ~WindowOver
    /\ Stop("EXCEPTION")
    /\ UNCHANGED <<clock, SL_PERCENT, strategyVars, strikeVars, seriesVars, bookVars, entryVars, feedVars, instrument_data,
                   dashVars>>

\* A round of the confirmation window that re-checks the trading hours and,
\* outside them, gives the window up and goes back to the loop's sleep.
ConfirmPollChecksHours(q, secs) ==
    /\ pc = "confirm"
    /\ ~WindowOver
    /\ IF in_trading_hours
       THEN /\ pending' = [pending EXCEPT !.elapsed = pending.elapsed + secs]
            /\ UNCHANGED pc
       ELSE /\ pending' = NoPending
            /\ pc' = "sleep"
    /\ UNCHANGED <<clock, SL_PERCENT, strategyVars, strikeVars, seriesVars, exitPath, running, mq, si, bookVars,
                   entryVars, feedVars, instrument_data, dashVars>>

\* A round of the confirmation window that takes the polled price as the
\* price to enter at.
ConfirmPollReprices(q, secs) ==
    /\ pc = "confirm"
    /\ ~WindowOver
    /\ pending' = [pending EXCEPT !.elapsed = pending.elapsed + secs,
                                  !.price = IF q.kind = "dict"
                                            THEN Get(q.lp, pending.price)
                                            ELSE pending.price]
    /\ IF q.kind = "dict" /\ pending.symbol \in DOMAIN instrument_data
       THEN instrument_data' =
              [instrument_data EXCEPT
                 ![pending.symbol].close = Get(q.lp, pending.price),
                 ![pending.symbol].ltp = Get(q.lp, pending.price)]
       ELSE UNCHANGED instrument_data
    /\ UNCHANGED <<clock, SL_PERCENT, strategyVars, strikeVars, seriesVars, pc, exitPath, running, mq, si, bookVars,
                   entryVars, feedVars, dashVars>>

\* enter_trade, lines 306-315: one round of the confirmation window on the
\* reply q, taking secs seconds; the polled price goes to the instrument's
\* snapshot.
ConfirmPollOn(q, secs) ==
    /\ pc = "confirm"
    /\ ~WindowOver
    /\ pending' = [pending EXCEPT !.elapsed = pending.elapsed + secs]
    /\ IF q.kind = "dict" /\ pending.symbol \in DOMAIN instrument_data
       THEN instrument_data' =
              [instrument_data EXCEPT
                 ![pending.symbol].close = Get(q.lp, pending.price),
                 ![pending.symbol].ltp = Get(q.lp, pending.price)]
       ELSE UNCHANGED instrument_data
    /\ UNCHANGED <<clock, SL_PERCENT, strategyVars, strikeVars, seriesVars, pc, exitPath, running, mq, si, bookVars,
                   entryVars, feedVars, dashVars>>

ConfirmPoll == \E q \in PollResponses, secs \in PollSeconds : ConfirmPollOn(q, secs)

\* A run loop that records the signal as acted on whether or not enter_trade
\* returned a position id.
ConfirmOrderCountsAttempt ==
    /\ pc = "confirm"
    /\ WindowOver
    /\ \E accepted \in BOOLEAN :
          LET order_id == place_order(pending.symbol, "B", accepted)
              pos_id == <<pending.symbol, order_id>>
          IN /\ orders' = BookAfter(pending.symbol, "B", accepted)
             /\ last_signal' = pending.signal
             /\ IF accepted
                THEN /\ positions' = Put(positions, pos_id,
                                         NewPosition(pending.signal, pending.symbol,
                                                     pending.price, pending.lot, order_id))
                     /\ trade_counter' = trade_counter + 1
                     /\ trades' = trades + 1
                ELSE UNCHANGED <<positions, trades, trade_counter>>
    /\ ScanNext
    /\ UNCHANGED <<clock, SL_PERCENT, strategyVars, strikeVars, seriesVars, pnl, closed_trades, feedVars,
                   instrument_data, dashVars>>

\* enter_trade, lines 317-343, and run, lines 706-708: the buy order; when
\* the broker accepts it the position is stored.
ConfirmOrder ==
    /\ pc = "confirm"
    /\ WindowOver
    /\ \E accepted \in BOOLEAN :
          LET order_id == place_order(pending.symbol, "B", accepted)
              pos_id == <<pending.symbol, order_id>>
          IN /\ orders' = BookAfter(pending.symbol, "B", accepted)
             /\ IF accepted
                THEN /\ positions' = Put(positions, pos_id,
                                         NewPosition(pending.signal, pending.symbol,
                                                     pending.price, pending.lot, order_id))
                     /\ trade_counter' = trade_counter + 1
                     /\ last_signal' = pending.signal
                     /\ trades' = trades + 1
                ELSE UNCHANGED <<positions, entryVars>>
    /\ ScanNext
    /\ UNCHANGED <<clock, SL_PERCENT, strategyVars, strikeVars, seriesVars, pnl, closed_trades, feedVars, instrument_data,
                   dashVars>>

\* KeyboardInterrupt: run leaves its loop through `except KeyboardInterrupt`.
Interrupt ==
    /\ pc # "stopped"
    /\ Stop("INTERRUPT")
    /\ UNCHANGED <<clock, SL_PERCENT, strategyVars, strikeVars, seriesVars, bookVars, entryVars, feedVars, instrument_data,
                   dashVars>>

\* The wall clock passes 09:15, then 15:30.
ClockTick ==
    /\ clock # "POST"
    /\ clock' = IF clock = "PRE" THEN "OPEN" ELSE "POST"
    /\ UNCHANGED <<SL_PERCENT, strategyVars, strikeVars, seriesVars, loopVars, bookVars, entryVars, feedVars, instrument_data,
                   dashVars>>

DecisionLoop ==
    \/ LoopSleep \/ LoopWake \/ LoopLossLimit \/ LoopQuit \/ LoopManualKey \/ LoopManage
    \/ ManualNone \/ ManualListingRaises \/ ManualCloseRaises \/ ManualClose
    \/ ManageRaises \/ ManageSkip \/ ManageTick
    \/ ScanRaises \/ ScanSkip \/ ScanEnter
    \/ ConfirmRaises \/ ConfirmPoll \/ ConfirmOrder

\* --------------------------------------------------- the dashboard thread
\* The thread is a daemon: it takes steps while run has not returned (when
\* run returns the interpreter exits and the thread ends with it).
\* update_dashboard_thread: after an instrument of the feed sweep, the next
\* one, or display_dashboard.
DashNext ==
    /\ di' = IF di = Len(Instruments) THEN 1 ELSE di + 1
    /\ dpc' = IF di = Len(Instruments) THEN "display" ELSE "feed"

\* `while self.running` of update_dashboard_thread
DashLoopTest == IF running THEN "feed" ELSE "done"

\* update_dashboard_thread, lines 640 and 646-648: the quote fetch raises;
\* the handler inside the loop logs it and the sweep starts over.
DashRaises ==
    /\ pc # "stopped"
    /\ dpc = "feed"
    /\ di' = 1
    /\ dpc' = DashLoopTest
    /\ UNCHANGED <<dit, clock, SL_PERCENT, strategyVars, strikeVars, seriesVars, loopVars, bookVars, entryVars, feedVars,
                   instrument_data>>

\* update_dashboard_thread, line 641, and update_instrument_data, line 484:
\* no quote, or one whose status is not 'Ok': nothing is stored.
DashSkip ==
    /\ pc # "stopped"
    /\ dpc = "feed"
    /\ DashNext
    /\ UNCHANGED <<dit, clock, SL_PERCENT, strategyVars, strikeVars, seriesVars, loopVars, bookVars, entryVars, feedVars,
                   instrument_data>>

\* updated.drop_duplicates(subset=['datetime'], keep='last')
DropDuplicates(rows) ==
    LET Kept == {i \in 1..Len(rows) :
                    \A j \in (i + 1)..Len(rows) : rows[j].datetime # rows[i].datetime}
        F[i \in 0..Len(rows)] ==
            IF i = 0 THEN << >>
            ELSE IF i \in Kept THEN Append(F[i - 1], rows[i]) ELSE F[i - 1]
    IN F[Len(rows)]

\* datetime.now() of a new data point: today, after every stored row.
Now(rows) ==
    IF rows = << >> THEN <<2, 1>>
    ELSE <<2, (IF rows[Len(rows)].datetime[1] = 2 THEN rows[Len(rows)].datetime[2] ELSE 0) + 1>>

\* update_instrument_data, lines 487-516: the data point is appended to the
\* CSV file, and the file as re-read (no indicator columns) becomes the
\* cached frame.
DashStore ==
    /\ pc # "stopped"
    /\ dpc = "feed"
    /\ Len(csv[Instruments[di].symbol]) < MaxRows
    /\ \E q \in OkQuotes :
          LET symbol == Instruments[di].symbol
              updated == DropDuplicates(Append(csv[symbol], Row(Now(csv[symbol]), q)))
          IN /\ csv' = [csv EXCEPT ![symbol] = updated]
             /\ data_cache' = Put(data_cache, symbol, updated)
    /\ dpc' = "stored"
    /\ UNCHANGED <<clock, SL_PERCENT, strategyVars, strikeVars, seriesVars, loopVars, bookVars, entryVars, instrument_data, di,
                   dit>>

\* The snapshot update_instrument_data stores, lines 522-536: the fields of
\* the data point (the last row of the re-read frame raw) and the indicators
\* and signal of the frame df.
Snapshot(symbol, raw, df) ==
    LET point == raw[Len(raw)]
        last == df[Len(df)]
        sig == detect_signal(df)[1]
    IN [symbol |-> symbol, ltp |-> point.close, vwap |-> last.vwap, ema |-> last.ema,
        signal |-> sig, volume |-> point.volume, open |-> point.open,
        high |-> point.high, low |-> point.low, close |-> NoKey]

\* update_instrument_data, lines 518-536: with EMA_PERIOD rows or more the
\* frame with its indicators replaces the cached one and the snapshot is
\* stored.
DashIndicators ==
    /\ pc # "stopped"
    /\ dpc = "stored"
    /\ LET symbol == Instruments[di].symbol
           df == calculate_ema(calculate_vwap(data_cache[symbol]))
       IN IF Len(data_cache[symbol]) >= EMA_PERIOD
          THEN /\ data_cache' = Put(data_cache, symbol, df)
               /\ instrument_data' = Put(instrument_data, symbol,
                                          Snapshot(symbol, data_cache[symbol], df))
          ELSE UNCHANGED <<data_cache, instrument_data>>
    /\ DashNext
    /\ UNCHANGED <<clock, SL_PERCENT, strategyVars, strikeVars, seriesVars, loopVars, bookVars, entryVars, csv, dit>>

\* display_dashboard, lines 542-573 and 597-633, and time.sleep(DASH_REFRESH):
\* the header, the instrument table and the ledger are read and printed; with
\* positions open the loop of line 576 takes an iterator over the live dict,
\* which yields the first position; its quote is fetched and its row printed.
DashDisplay ==
    /\ pc # "stopped"
    /\ dpc = "display"
    /\ IF DOMAIN positions # {}
       THEN /\ dpc' = "iterate"
            /\ dit' = [size |-> Cardinality(DOMAIN positions), idx |-> 1]
       ELSE /\ dpc' = DashLoopTest
            /\ dit' = NoIter
    /\ UNCHANGED <<clock, SL_PERCENT, strategyVars, strikeVars, seriesVars, loopVars, bookVars, entryVars, feedVars,
                   instrument_data, di>>

\* How a dashboard sweep ends in the handler of lines 646-648.
DashAbort ==
    /\ dpc' = DashLoopTest
    /\ di' = 1
    /\ dit' = NoIter

\* display_dashboard, lines 576-596: the iterator yields the next position,
\* whose quote is fetched and whose row is printed; after the last one the
\* ledger is printed and the thread sleeps.  The dict has the size it had
\* when the iteration began.
DashIterNext ==
    /\ pc # "stopped"
    /\ dpc = "iterate"
    /\ Cardinality(DOMAIN positions) = dit.size
    /\ IF dit.idx < dit.size
       THEN /\ dit' = [dit EXCEPT !.idx = dit.idx + 1]
            /\ UNCHANGED <<dpc, di>>
       ELSE DashAbort
    /\ UNCHANGED <<clock, SL_PERCENT, strategyVars, strikeVars, seriesVars, loopVars, bookVars, entryVars, feedVars,
                   instrument_data>>

\* display_dashboard, line 576: the dict changed size since the iteration
\* began; the iterator raises RuntimeError ('dictionary changed size during
\* iteration'), which the handler of update_dashboard_thread logs.
DashIterChanged ==
    /\ pc # "stopped"
    /\ dpc = "iterate"
    /\ Cardinality(DOMAIN positions) # dit.size
    /\ DashAbort
    /\ UNCHANGED <<clock, SL_PERCENT, strategyVars, strikeVars, seriesVars, loopVars, bookVars, entryVars, feedVars,
                   instrument_data>>

\* display_dashboard, line 577: the quote fetch of a row raises.
DashIterQuoteRaises ==
    /\ pc # "stopped"
    /\ \/ dpc = "display" /\ DOMAIN positions # {}
       \/ /\ dpc = "iterate"
          /\ Cardinality(DOMAIN positions) = dit.size
          /\ dit.idx < dit.size
    /\ DashAbort
    /\ UNCHANGED <<clock, SL_PERCENT, strategyVars, strikeVars, seriesVars, loopVars, bookVars, entryVars, feedVars,
                   instrument_data>>

Dashboard ==
    \/ DashRaises \/ DashSkip \/ DashStore \/ DashIndicators \/ DashDisplay
    \/ DashIterNext \/ DashIterChanged \/ DashIterQuoteRaises

Next == DecisionLoop \/ Interrupt \/ ClockTick \/ Dashboard

Spec == Init /\ [][Next]_vars

\* The decision loop keeps being scheduled.
FairSpec == Init /\ [][Next]_vars /\ WF_vars(DecisionLoop)

\* ------------------------------------------- the detector, sample by sample
\* The data points a series is built from: a flat one, a rise, a fall.
SampleQuotes == {QFlat, QUp, QDown}

\* The calendar day of the next sample: the day of the last one, or the next.
SampleDays(rows) ==
    IF rows = << >> THEN {1}
    ELSE {d \in {DateOf(rows[Len(rows)]), DateOf(rows[Len(rows)]) + 1} : d <= MaxDays}

\* One sample is appended to the series, the indicators are computed on the
\* whole series and the detector is evaluated on the result.
SeriesAppend ==
    /\ Len(frame) < MaxRows
    /\ \E q \in SampleQuotes, day \in SampleDays(frame) :
          LET df == Append(frame, Row(<<day, Len(frame) + 1>>, q)) IN
          /\ frame' = df
          /\ signals' = Append(signals, detect_signal(WithIndicators(df))[1])
    /\ UNCHANGED <<clock, SL_PERCENT, strategyVars, strikeVars, loopVars, bookVars, entryVars, feedVars,
                   instrument_data, dashVars>>

SeriesNext == SeriesAppend

SeriesSpec == Init /\ [][SeriesNext]_vars

\* ------------------------------------------------- the EMA, close by close
\* The closes a series of the EMA specification is built from: those of the
\* reference series 100, 102, 101, 105, 107.
ReferenceCloses == <<100, 102, 101, 105, 107>>
SampleCloses == {ReferenceCloses[i] : i \in 1..Len(ReferenceCloses)}

\* A quote whose prices are all c.
CloseQuote(c) == [QFlat EXCEPT !.lp = c, !.o = c, !.h = c, !.l = c]

\* One sample with a close of SampleCloses is appended to the series.
EmaAppend ==
    /\ Len(frame) < MaxRows
    /\ \E c \in SampleCloses :
          frame' = Append(frame, Row(<<1, Len(frame) + 1>>, CloseQuote(c)))
    /\ UNCHANGED <<clock, SL_PERCENT, strategyVars, strikeVars, signals, loopVars, bookVars, entryVars, feedVars,
                   instrument_data, dashVars>>

EmaNext == EmaAppend

EmaSpec == Init /\ [][EmaNext]_vars

\* --------------------------------------------- the series, ingest by ingest
\* What datetime.now() can give for a data point: the wall clock is not
\* monotonic, so a reading may repeat an earlier one or lie before it.
SampleTimes == {<<1, 1>>, <<1, 2>>, <<2, 1>>}

\* update_instrument_data, lines 493-516, on one series: the data point is
\* concatenated to the file's rows, duplicates of a datetime are dropped
\* keeping the last, and the result is the series.
IngestSample ==
    \E q \in SampleQuotes, dt \in SampleTimes :
        /\ frame' = DropDuplicates(Append(frame, Row(dt, q)))
        /\ UNCHANGED <<clock, SL_PERCENT, strategyVars, strikeVars, signals, loopVars, bookVars, entryVars, feedVars,
                       instrument_data, dashVars>>

IngestNext == IngestSample

IngestSpec == Init /\ [][IngestNext]_vars

\* ------------------------------------------------- the ledger, close by close
\* How a position of the ledger specification is closed: at its target, or
\* by hand at a quote below the entry price.
CloseKinds ==
    {[reason |-> "TP", status |-> "TGT_HIT", quote |-> QWide],
     [reason |-> "MANUAL", status |-> "MANUAL_CLOSE", quote |-> QDown]}

\* The losing records the ledger holds.
Losses(ledger) == {i \in 1..Len(ledger) : ledger[i].pnl < 0}

\* One round trip: a position is entered on the second instrument at the
\* price of a flat quote and closed; close_position books its PnL, appends its
\* record and cuts the ledger (lines 385-408).
LedgerClose ==
    /\ trade_counter <= MaxCloses
    /\ \E kind \in CloseKinds :
          LET inst == Instruments[Len(Instruments)]
              pos == NewPosition("BUY_PUT", inst.symbol, TickCurr(QFlat), inst.lot_size,
                                 trade_counter)
              price == IF kind.reason = "TP" THEN pos.tp ELSE TickCurr(kind.quote)
              rec == TradeRecord(pos, price, kind.reason, kind.status)
          IN /\ rec.pnl < 0 => Cardinality(Losses(closed_trades)) < MaxLosses
             /\ pnl' = pnl + ClosePnl(pos, price)
             /\ closed_trades' = Appended(closed_trades, rec)
    /\ trade_counter' = trade_counter + 1
    /\ trades' = trades + 1
    /\ UNCHANGED <<clock, SL_PERCENT, strategyVars, strikeVars, seriesVars, loopVars, positions, orders, last_signal,
                   feedVars, instrument_data, dashVars>>

LedgerNext == LedgerClose

LedgerSpec == Init /\ [][LedgerNext]_vars

\* ------------------------------------------------- ticks, on their own
\* enter_trade and manage_positions on one position at a time, with replies
\* whose 'lp', 'high' and 'low' lie on both sides of the entry price and
\* below the target.
TickEntry == 100
TickPrices == {60, 90, 100, 130, 150}

TickQuote(lo, c, hi) ==
    [kind |-> "dict", stat |-> "Ok", lp |-> c, o |-> c, h |-> c, l |-> c, v |-> 1,
     high |-> hi, low |-> lo]

\* An 'Ok' reply without 'lp', 'high' or 'low': manage_positions reads 0.
QBare == [QNotOk EXCEPT !.stat = "Ok"]

TickQuotes ==
    {TickQuote(lo, c, hi) :
        lo \in {l \in TickPrices : l <= TickEntry},
        c \in {TickEntry},
        hi \in {h \in TickPrices : h >= TickEntry}}
    \cup {QBare, QDown}

\* enter_trade, lines 317-340, with an accepted buy order at TickEntry.
TickEnter ==
    /\ positions = << >>
    /\ trade_counter <= MaxTrades
    /\ \E i \in 1..Len(Instruments) :
          LET inst == Instruments[i]
              order_id == place_order(inst.symbol, "B", TRUE)
          IN /\ orders' = BookAfter(inst.symbol, "B", TRUE)
             /\ positions' = Put(positions, <<inst.symbol, order_id>>,
                                 NewPosition("BUY_CALL", inst.symbol, TickEntry,
                                             inst.lot_size, order_id))
    /\ trade_counter' = trade_counter + 1
    /\ UNCHANGED <<clock, SL_PERCENT, strategyVars, strikeVars, seriesVars, loopVars, pnl, closed_trades, trades,
                   last_signal, feedVars, instrument_data, dashVars>>

\* manage_positions, lines 350-372, on one open position and the reply q.
TickSample ==
    /\ \E id \in DOMAIN positions, q \in TickQuotes :
          LET pos == Ticked(positions[id], q)
              ticked == [positions EXCEPT ![id] = pos]
              exit == ExitDecision(pos, q)
          IN IF exit.reason # None
             THEN \E accepted \in BOOLEAN :
                     close_position(ticked, id, exit.reason, exit.price, exit.status, accepted)
             ELSE /\ positions' = ticked
                  /\ UNCHANGED <<pnl, closed_trades, orders>>
    /\ UNCHANGED <<clock, SL_PERCENT, strategyVars, strikeVars, seriesVars, loopVars, entryVars, feedVars,
                   instrument_data, dashVars>>

TickNext == TickEnter \/ TickSample \/ ClockTick

TickSpec == Init /\ [][TickNext]_vars

\* ------------------------------------------ VWAPStrategy (src/strategy.py)
\* strategy.py takes QTY, MAX_LOSS_PER_TRADE, TAKE_PROFIT_PERCENT and
\* MAX_DAILY_LOSS from config.py, which is not in the source tree: the values
\* here are samples.
QTY == 10
MAX_LOSS_PER_TRADE == 20
TAKE_PROFIT_PERCENT == 40
VWAP_MAX_DAILY_LOSS == 500

\* Buy orders and orders in all that the broker accepts in a session.
MaxVwapTrades == 2
MaxVwapOrders == 4

\* The ATM call contracts run trades; the 'lp' of the option quote at entry;
\* the 'lp' of the quotes manage_position and close_position fetch, below the
\* stop, between the levels and above the target of a position entered at
\* VwapEntry.
VwapSymbols == {"CALL_A", "CALL_B"}
VwapEntry == 100
VwapPrices == {50, VwapEntry, 160}

\* check_trading_hours()
check_trading_hours == clock = "OPEN"

\* What vwap_crossover_logic can return on the broker's candles.
VwapSignals == {None, "BUY_CALL", "BUY_PUT"}

\* How a call of close_position can go: the sell order is rejected (or
\* raises); it is accepted and the quote fetch after it gives nothing usable
\* (or raises); it is accepted and the quote has 'lp'.
CloseOutcomes ==
    {[sell |-> FALSE, quote |-> NoKey], [sell |-> TRUE, quote |-> NoKey]}
    \cup {[sell |-> TRUE, quote |-> p] : p \in VwapPrices \ {VwapEntry}}

\* How a call of manage_position can go: no usable quote, or a quote with
\* 'lp' and, should it ask for a close, the way the close goes.
ManageOutcomes ==
    {[quote |-> NoKey, close |-> [sell |-> FALSE, quote |-> NoKey]]}
    \cup {[quote |-> p, close |-> c] : p \in VwapPrices, c \in CloseOutcomes}

\* The book of VWAPStrategy: its open set, its daily PnL and the orders the
\* broker accepted.
VwapBook == [positions |-> vwap_positions, daily_pnl |-> daily_pnl, orders |-> vwap_orders]

\* VWAPStrategy.close_position, lines 197-242: the sell order, and only when
\* it came back 'Ok' and the quote after it came back 'Ok' the PnL and the
\* removal from the open set.
VwapClosePosition(book, position_id, outcome) ==
    IF position_id \notin DOMAIN book.positions THEN book
    ELSE LET position == book.positions[position_id]
             sold == IF outcome.sell
                     THEN book.orders \cup
                            {[no |-> Cardinality(book.orders) + 1, side |-> "S",
                              symbol |-> position.symbol, position_id |-> position_id]}
                     ELSE book.orders
         IN IF outcome.sell /\ outcome.quote # NoKey
            THEN [positions |-> Del(book.positions, position_id),
                  daily_pnl |-> book.daily_pnl
                                + (outcome.quote - position.entry_price) * position.qty,
                  orders |-> sold]
            ELSE [book EXCEPT !.orders = sold]

\* VWAPStrategy.manage_position, lines 170-195.
manage_position(book, position_id, outcome) ==
    IF position_id \notin DOMAIN book.positions \/ outcome.quote = NoKey THEN book
    ELSE LET position == book.positions[position_id]
         IN IF outcome.quote <= position.stop_loss
               \/ outcome.quote >= position.take_profit
            THEN VwapClosePosition(book, position_id, outcome.close)
            ELSE book

\* list(self.positions.keys()): the ids in insertion order, which is the
\* order of their buy orders.
RECURSIVE VwapKeys(_)
VwapKeys(posns) ==
    IF DOMAIN posns = {} THEN << >>
    ELSE LET first == CHOOSE id \in DOMAIN posns : \A o \in DOMAIN posns : id[2] <= o[2]
         IN <<first>> \o VwapKeys(Del(posns, first))

\* run, lines 363-364: close_position on every id of the list.
RECURSIVE CloseEach(_, _, _)
CloseEach(book, ids, outcomes) ==
    IF ids = << >> THEN book
    ELSE CloseEach(VwapClosePosition(book, Head(ids), outcomes[Head(ids)]),
                   Tail(ids), outcomes)

\* run, lines 416-417: manage_position on every id of the list.
RECURSIVE ManageEach(_, _, _)
ManageEach(book, ids, outcomes) ==
    IF ids = << >> THEN book
    ELSE ManageEach(manage_position(book, Head(ids), outcomes[Head(ids)]),
                    Tail(ids), outcomes)

\* run, lines 388-395: the position stored after an accepted buy.
VwapNewPosition(symbol, entry_price) ==
    [symbol |-> symbol, qty |-> QTY, entry_price |-> entry_price,
     stop_loss |-> PctOf(entry_price, 100 - MAX_LOSS_PER_TRADE),
     take_profit |-> PctOf(entry_price, 100 + TAKE_PROFIT_PERCENT)]

\* The book written back to the fields of VWAPStrategy.
StoreBook(book) ==
    /\ vwap_positions' = book.positions
    /\ daily_pnl' = book.daily_pnl
    /\ vwap_orders' = book.orders

\* run, lines 304-349 and 424-426: outside the trading hours, or with no
\* underlying quote, no contract or no candles, or after an exception in the
\* loop body, the loop sleeps and starts over.
VwapWait ==
    /\ vwap_pc = "top"
    /\ vwap_pc' = "wait"
    /\ UNCHANGED <<clock, SL_PERCENT, seriesVars, strikeVars, loopVars, bookVars, entryVars,
                   feedVars, instrument_data, dashVars, vwap_positions, daily_pnl,
                   vwap_last_signal, daily_trades, vwap_orders>>

\* The sleep is over; continue.
VwapWake ==
    /\ vwap_pc = "wait"
    /\ vwap_pc' = "top"
    /\ UNCHANGED <<clock, SL_PERCENT, seriesVars, strikeVars, loopVars, bookVars, entryVars,
                   feedVars, instrument_data, dashVars, vwap_positions, daily_pnl,
                   vwap_last_signal, daily_trades, vwap_orders>>

\* run, lines 310-312: the daily-loss limit ends the loop.
VwapLossLimit ==
    /\ vwap_pc = "top"
    /\ check_trading_hours
    /\ daily_pnl <= -VWAP_MAX_DAILY_LOSS
    /\ vwap_pc' = "stopped"
    /\ UNCHANGED <<clock, SL_PERCENT, seriesVars, strikeVars, loopVars, bookVars, entryVars,
                   feedVars, instrument_data, dashVars, vwap_positions, daily_pnl,
                   vwap_last_signal, daily_trades, vwap_orders>>

\* run, line 361, test false: no signal, or the one acted on last.
VwapNoSignal ==
    /\ vwap_pc = "top"
    /\ check_trading_hours
    /\ daily_pnl > -VWAP_MAX_DAILY_LOSS
    /\ \E signal \in VwapSignals : signal = None \/ signal = vwap_last_signal
    /\ vwap_pc' = "manage"
    /\ UNCHANGED <<clock, SL_PERCENT, seriesVars, strikeVars, loopVars, bookVars, entryVars,
                   feedVars, instrument_data, dashVars, vwap_positions, daily_pnl,
                   vwap_last_signal, daily_trades, vwap_orders>>

\* run, lines 361-413: a signal other than the last acted-on one: every open
\* position gets its close_position call, then the option quote is fetched
\* and the buy order placed; when both come back 'Ok' the position is stored.
\* entry is the 'lp' of the option quote, NoKey when the quote or the order
\* fails.
VwapSignalChange ==
    /\ vwap_pc = "top"
    /\ check_trading_hours
    /\ daily_pnl > -VWAP_MAX_DAILY_LOSS
    /\ \E signal \in VwapSignals \ {None, vwap_last_signal},
          outcomes \in [DOMAIN vwap_positions -> CloseOutcomes],
          symbol \in VwapSymbols,
          entry \in {VwapEntry, NoKey} :
          LET closed == CloseEach(VwapBook, VwapKeys(vwap_positions), outcomes)
              order_id == Cardinality(closed.orders) + 1
              position_id == <<symbol, order_id>>
          IN IF entry # NoKey
             THEN /\ daily_trades < MaxVwapTrades
                  /\ order_id <= MaxVwapOrders
                  /\ StoreBook([closed EXCEPT
                        !.positions = Put(closed.positions, position_id,
                                          VwapNewPosition(symbol, entry)),
                        !.orders = closed.orders \cup
                                     {[no |-> order_id, side |-> "B", symbol |-> symbol,
                                       position_id |-> position_id]}])
                  /\ vwap_last_signal' = signal
                  /\ daily_trades' = daily_trades + 1
             ELSE /\ Cardinality(closed.orders) <= MaxVwapOrders
                  /\ StoreBook(closed)
                  /\ UNCHANGED <<vwap_last_signal, daily_trades>>
    /\ vwap_pc' = "manage"
    /\ UNCHANGED <<clock, SL_PERCENT, seriesVars, strikeVars, loopVars, bookVars, entryVars,
                   feedVars, instrument_data, dashVars>>

\* run, lines 416-422: manage_position on every open position, the status
\* line and time.sleep(30).
VwapManage ==
    /\ vwap_pc = "manage"
    /\ \E outcomes \in [DOMAIN vwap_positions -> ManageOutcomes] :
          LET managed == ManageEach(VwapBook, VwapKeys(vwap_positions), outcomes)
          IN /\ Cardinality(managed.orders) <= MaxVwapOrders
             /\ StoreBook(managed)
    /\ vwap_pc' = "top"
    /\ UNCHANGED <<clock, SL_PERCENT, seriesVars, strikeVars, loopVars, bookVars, entryVars,
                   feedVars, instrument_data, dashVars, vwap_last_signal, daily_trades>>

VwapNext ==
    \/ VwapWait \/ VwapWake \/ VwapLossLimit \/ VwapNoSignal \/ VwapSignalChange
    \/ VwapManage \/ ClockTick

VwapSpec == Init /\ [][VwapNext]_vars

\* ------------------- nearest_strikes (src/fetch_options_intraday1.py)
\* The strikes a chain can list, the ATM values (multiples of the strike
\* step, on or between the listed strikes) and the widths n drawn.
StrikeSamples == {100, 200, 300, 400, 500}
AtmSamples == {200, 250, 300}
MaxWidth == 2

\* sorted(set(...)): the ascending list of a set of strikes.
RECURSIVE Sorted(_)
Sorted(S) ==
    IF S = {} THEN << >>
    ELSE LET least == CHOOSE x \in S : \A y \in S : x <= y
         IN <<least>> \o Sorted(S \ {least})

\* bisect.bisect_left(available, atm): the 0-based insertion point, the number
\* of entries below atm.
bisect_left(available, atm) ==
    Cardinality({i \in 1..Len(available) : available[i] < atm})

\* available[lo:hi] of Python, lo and hi 0-based and already non-negative.
Slice(available, lo, hi) ==
    {available[i] : i \in (lo + 1)..Min(hi, Len(available))}

\* nearest_strikes(available, atm, n), lines 152-160.
nearest_strikes(available, atm, n) ==
    LET idx == bisect_left(available, atm)
        strikes == IF \E i \in 1..Len(available) : available[i] = atm THEN {atm} ELSE {}
        below == Slice(available, Max(0, idx - n), idx)
        above == Slice(available, idx + 1, idx + n + 1)
    IN Sorted(below \cup strikes \cup above)

\* main, lines 150 and 162: the call on a sorted chain.
NearestCall ==
    /\ \E S \in SUBSET StrikeSamples, atm \in AtmSamples, n \in 0..MaxWidth :
          selection' = [available |-> S, atm |-> atm, n |-> n,
                        strikes |-> nearest_strikes(Sorted(S), atm, n)]
    /\ UNCHANGED <<clock, SL_PERCENT, seriesVars, strategyVars, loopVars, bookVars, entryVars,
                   feedVars, instrument_data, dashVars>>

NearestNext == NearestCall

NearestSpec == Init /\ [][NearestNext]_vars

\* ------------------------------------------------------------ observables
\* A buy order is accepted by the broker in this step.
BuyAccepted == \E o \in orders' \ orders : o.side = "B"

\* The daily PnL after the first k closes of the session.
PnlAfter(k) ==
    LET F[i \in 0..k] == IF i = 0 THEN 0 ELSE F[i - 1] + closed_trades[i].pnl
    IN F[k]

\* The daily PnL has been at or below the limit at some point of the session.
EverBreached ==
    \E k \in 1..Len(closed_trades) : PnlAfter(k) <= -(MAX_DAILY_LOSS * PnlScale)

\* The position of trade number n is open.
OpenTrade(n) == \E id \in DOMAIN positions : positions[id].trade_no = n

\* The conditions (a) and (b) of the exit evaluation on a ticked position.
SlCondition(pos, q) == TickLow(q) <= pos.current_sl
TpCondition(pos, q) == TickHigh(q) >= pos.tp

\* In the next state the position id is gone and the ledger's newest record
\* is its close, with this reason.
ClosedWith(id, reason) ==
    /\ id \notin DOMAIN positions'
    /\ Len(closed_trades') = Len(closed_trades) + 1
    /\ closed_trades'[Len(closed_trades')].trade_no = positions[id].trade_no
    /\ closed_trades'[Len(closed_trades')].reason = reason

\* ----------------------------------------------------------------- claims

\* C1: no instrument symbol ever has more than one position in the
\* open-position map at the same time.
C1_OnePositionPerSymbol ==
    \A a, b \in DOMAIN positions :
        positions[a].symbol = positions[b].symbol => a = b

\* C1, its case: a symbol holds a position while its series shows a signal
\* that differs from the last acted-on one, so that only the flat test of the
\* sweep keeps a second entry on it away; another symbol holds a position too.
C1_Witness ==
    /\ Cardinality(DOMAIN positions) = 2
    /\ \E s \in Symbols :
          /\ has_position(s)
          /\ SeriesReady(s)
          /\ detect_signal(data_cache[s])[1] \in {"BUY_CALL", "BUY_PUT"}
          /\ detect_signal(data_cache[s])[1] # last_signal

\* C2: whenever an entry buy order is placed and accepted, daily PnL is above
\* -MAX_DAILY_LOSS.
C2_EntryOnlyAboveLimit ==
    [][BuyAccepted => ~LossLimitReached]_vars

\* C3: once the daily PnL has been at or below -MAX_DAILY_LOSS, no entry is
\* made for the rest of the session.
C3_BreachLatches ==
    [][BuyAccepted => ~EverBreached]_vars

\* C4: the breach of the daily-loss limit does not stop the management of the
\* positions that are still open: the loop never ends on the limit while a
\* position is open.
C4_BreachKeepsManaging ==
    ~(exitPath = "LOSS_LIMIT" /\ DOMAIN positions # {})

\* C5: no position leaves the open set without a sell order for its symbol
\* accepted by the broker in that close.
C5_NoCloseWithoutSell ==
    [][\A id \in DOMAIN positions :
          id \notin DOMAIN positions' =>
              \E o \in orders' \ orders :
                  o.side = "S" /\ o.symbol = positions[id].symbol]_vars

\* C6: an exception raised during a cycle never ends the decision loop.
C6_ExceptionNeverEndsLoop ==
    exitPath # "EXCEPTION"

\* C7: a tick whose quote low is at or below the position's current_sl closes
\* the position with reason SL.
C7_StopAlwaysEnforced ==
    [][\A q \in OkQuotes :
          (ManageTickOn(q) /\ SlCondition(Ticked(positions[Head(mq)], q), q))
              => ClosedWith(Head(mq), "SL")]_vars

\* C8: a tick closes at most once; when the SL and TP conditions both hold the
\* reason is SL; when the TP condition holds outside trading hours the reason
\* is TP.
C8_FirstMatchWins ==
    [][\A q \in OkQuotes :
          ManageTickOn(q) =>
              LET pos == Ticked(positions[Head(mq)], q) IN
              /\ Len(closed_trades') <= Len(closed_trades) + 1
              /\ (SlCondition(pos, q) /\ TpCondition(pos, q))
                    => ClosedWith(Head(mq), "SL")
              /\ (~SlCondition(pos, q) /\ TpCondition(pos, q) /\ ~in_trading_hours)
                    => ClosedWith(Head(mq), "TP")]_vars

\* C9: a position that is open when the clock has left the trading-hours
\* window is eventually closed, as long as the loop keeps running.
C9_EodEventuallyCloses ==
    \A n \in 1..MaxTrades :
        (OpenTrade(n) /\ clock = "POST") ~> (~OpenTrade(n) \/ pc = "stopped")

\* C10: the dashboard thread is read-only on shared state: none of its steps
\* changes data_cache, instrument_data or the open-position set.
C10_DashboardReadOnly ==
    [][Dashboard => UNCHANGED <<data_cache, instrument_data, positions>>]_vars

\* C11: the dashboard never finds the open-position map changed while it
\* iterates it: no 'dictionary changed size during iteration' failure happens.
C11_DashboardIterationConsistent ==
    [][~DashIterChanged]_vars

\* C12: the series the signal sweep hands to detect_signal carries EMA and
\* VWAP: at an instrument of the sweep whose cached series has EMA_PERIOD rows
\* or more, the detector finds both columns.
C12_DetectorSeesIndicators ==
    (pc = "scan" /\ SeriesReady(Instruments[si].symbol))
        => detect_signal(data_cache[Instruments[si].symbol])[1] # "KeyError"

\* C13: current_sl of an open position never decreases from one state to the
\* next, is never below the stop set at entry, and once it has left that stop
\* it is not below the trailing level of the high-water mark.
C13_StopOnlyTightens ==
    [][\A id \in DOMAIN positions' :
          /\ positions'[id].current_sl >= positions'[id].sl
          /\ positions'[id].current_sl > positions'[id].sl
                => positions'[id].current_sl
                     >= PctOf(positions'[id].high, 100 - TRAILING_SL_PERCENT)
          /\ id \in DOMAIN positions
                => positions'[id].current_sl >= positions[id].current_sl]_vars

\* C13, its case: a position whose stop was ratcheted above the stop set at
\* entry is about to be ticked again.
C13_Witness ==
    /\ pc = "manage"
    /\ positions[Head(mq)].current_sl > positions[Head(mq)].sl

\* C14: while a position is open its entry price, quantity, initial stop 'sl'
\* and take-profit 'tp' are the same in every next state.
C14_EntryLevelsFixed ==
    [][\A id \in DOMAIN positions \cap DOMAIN positions' :
          /\ positions'[id].entry = positions[id].entry
          /\ positions'[id].qty = positions[id].qty
          /\ positions'[id].sl = positions[id].sl
          /\ positions'[id].tp = positions[id].tp]_vars

\* C14, its case: two positions are open and one of them has been ticked
\* below its entry price.
C14_Witness ==
    /\ Cardinality(DOMAIN positions) = 2
    /\ \E id \in DOMAIN positions : positions[id].low < positions[id].entry

C16_ClosePnlFormula ==
    \A i \in 1..Len(closed_trades) :
        LET r == closed_trades[i] IN
        /\ r.pnl = (r.exit - r.entry) * r.qty * PnlScale
                     - (r.entry + r.exit) * r.qty * CommissionNum
        /\ r.exit = r.entry
             => /\ r.pnl = -((r.entry + r.exit) * r.qty * CommissionNum)
                /\ r.pnl # 0

\* C16, its case: a position was closed at its entry price.
C16_Witness ==
    \E i \in 1..Len(closed_trades) : closed_trades[i].exit = closed_trades[i].entry

\* C17: being flat is sufficient to act: the signal sweep never passes over an
\* instrument that has no open position and for which the detector returns a
\* signal while the daily PnL is above the loss limit.
C17_FlatSufficesToAct ==
    [][LET symbol == Instruments[si].symbol IN
       ~(/\ ScanSkip
         /\ SeriesReady(symbol)
         /\ detect_signal(data_cache[symbol])[1] \in {"BUY_CALL", "BUY_PUT"}
         /\ ~has_position(symbol)
         /\ ~LossLimitReached
         /\ trade_counter <= MaxTrades)]_vars

\* The signal a stored position was entered on.
SignalOf(pos) == IF pos.type = "CALL" THEN "BUY_CALL" ELSE "BUY_PUT"

\* C18: the last acted-on signal is one value for all instruments: enter_trade
\* is never called with the direction of the last successful entry, a position
\* is only ever stored with a direction other than the one of the last
\* successful entry and makes its direction the last acted-on one, and nothing
\* but a successful entry changes the last acted-on signal.
C18_DebounceIsGlobal ==
    [][/\ ScanEnter => pending'.signal # last_signal
       /\ \A id \in DOMAIN positions' \ DOMAIN positions :
             /\ SignalOf(positions'[id]) # last_signal
             /\ last_signal' = SignalOf(positions'[id])
       /\ last_signal' # last_signal => DOMAIN positions' \ DOMAIN positions # {}]_vars

\* C18, its case: an entry has succeeded on one instrument and the sweep
\* stands at another, flat, instrument whose series shows the same direction.
C18_Witness ==
    /\ pc = "scan"
    /\ last_signal \in {"BUY_CALL", "BUY_PUT"}
    /\ LET symbol == Instruments[si].symbol IN
          /\ ~has_position(symbol)
          /\ \A id \in DOMAIN positions : SignalOf(positions[id]) = last_signal
          /\ DOMAIN positions # {}
          /\ SeriesReady(symbol)
          /\ detect_signal(data_cache[symbol])[1] = last_signal
          /\ ~LossLimitReached
          /\ trade_counter <= MaxTrades

\* The sign of a - b for two fractions: -1, 0 or 1.
Sign(a, b) ==
    IF a.n * b.d < b.n * a.d THEN -1 ELSE IF a.n * b.d = b.n * a.d THEN 0 ELSE 1

\* EMA against VWAP, close against VWAP and close against EMA at sample i of
\* the series, each as a sign.
EmaVsVwap(i) ==
    Sign(WithIndicators(frame)[i].ema, WithIndicators(frame)[i].vwap)
CloseVsVwap(i) ==
    Sign(FOfInt(frame[i].close), WithIndicators(frame)[i].vwap)
CloseVsEma(i) ==
    Sign(FOfInt(frame[i].close), WithIndicators(frame)[i].ema)

\* The bullish crossover at sample i >= 2, and its mirror.
BullishAt(i) ==
    EmaVsVwap(i - 1) <= 0 /\ EmaVsVwap(i) = 1 /\ CloseVsVwap(i) = 1 /\ CloseVsEma(i) = 1
BearishAt(i) ==
    EmaVsVwap(i - 1) >= 0 /\ EmaVsVwap(i) = -1 /\ CloseVsVwap(i) = -1
    /\ CloseVsEma(i) = -1

\* C19: evaluated after each sample of a series, detect_signal returns BUY_CALL
\* exactly when the series has at least 2 samples and previous EMA <= previous
\* VWAP, current EMA > current VWAP and the current close is above both;
\* BUY_PUT exactly on the mirror condition; no signal otherwise, and so for
\* fewer than 2 samples; the two conditions never hold together.
C19_DetectorConditions ==
    /\ Len(signals) = Len(frame)
    /\ \A i \in 1..Len(signals) :
          /\ signals[i] \in {None, "BUY_CALL", "BUY_PUT"}
          /\ (signals[i] = "BUY_CALL") <=> (i >= 2 /\ BullishAt(i))
          /\ (signals[i] = "BUY_PUT") <=> (i >= 2 /\ BearishAt(i))
          /\ i >= 2 => ~(BullishAt(i) /\ BearishAt(i))

\* C19, its case: one series on which the detector has returned BUY_CALL,
\* BUY_PUT and, with 2 samples or more, no signal; the BUY_CALL came on a
\* previous sample with EMA equal to VWAP.
C19_Witness ==
    \E i, j, k \in 2..Len(signals) :
        /\ signals[i] = "BUY_CALL"
        /\ signals[j] = "BUY_PUT"
        /\ signals[k] = None
        /\ \E m \in 2..Len(signals) : signals[m] = "BUY_CALL" /\ EmaVsVwap(m - 1) = 0

\* EMA and VWAP of the series cross exactly once upward, at sample i: EMA is
\* at or below VWAP at every sample before i and above it from i on.
CrossesOnceUpAt(i) ==
    /\ i \in 2..Len(frame)
    /\ \A j \in 1..Len(frame) :
          IF j < i THEN EmaVsVwap(j) <= 0 ELSE EmaVsVwap(j) = 1

\* C20 as stated: on a series whose EMA and VWAP cross exactly once upward, at
\* sample i, the evaluations after each sample give exactly one BUY_CALL, at i,
\* and never a BUY_PUT.
C20_OneCallAtCrossing ==
    \A i \in 2..Len(frame) :
        CrossesOnceUpAt(i) =>
            /\ signals[i] = "BUY_CALL"
            /\ \A j \in 1..Len(signals) : j # i => signals[j] = None

\* C20, amended: on a series whose EMA and VWAP cross exactly once upward, at
\* sample i, the evaluations after each sample give no BUY_CALL anywhere but
\* at i; they give one at i exactly when the close at i is above both EMA and
\* VWAP; and they give a BUY_PUT only before i, at a sample whose predecessor
\* has EMA equal to VWAP.
C20_CallOnlyAtCrossing ==
    \A i \in 2..Len(frame) :
        CrossesOnceUpAt(i) =>
            /\ \A j \in 1..Len(signals) : signals[j] = "BUY_CALL" => j = i
            /\ (signals[i] = "BUY_CALL") <=> (CloseVsVwap(i) = 1 /\ CloseVsEma(i) = 1)
            /\ \A j \in 1..Len(signals) :
                  signals[j] = "BUY_PUT" => (1 < j /\ j < i /\ EmaVsVwap(j - 1) = 0)

\* C20, its case: a series that crosses exactly once upward, with samples
\* after the crossing, on which the detector returned BUY_CALL at the crossing.
C20_Witness ==
    \E i \in 2..Len(frame) :
        /\ CrossesOnceUpAt(i)
        /\ i < Len(frame)
        /\ signals[i] = "BUY_CALL"

\* C21: when enter_trade ends with the buy order rejected (the window is left,
\* run goes on and the broker's book has no new order), no position is
\* created and last_signal, trades, trade_counter, the daily PnL and the ledger
\* are as they were.
C21_RejectedBuyAbandonsEntry ==
    [][(pc = "confirm" /\ pc' \notin {"confirm", "stopped"} /\ orders' = orders)
          => UNCHANGED <<positions, trades, trade_counter, last_signal, pnl,
                         closed_trades>>]_vars

\* C21, its case: enter_trade is running on an instrument whose snapshot
\* carries the 'close' that only a confirmation poll writes, while no entry
\* has succeeded yet: an earlier entry on it was rejected and the signal is
\* being retried.
C21_Witness ==
    /\ pc = "confirm"
    /\ pending.elapsed = 0
    /\ trades = 0
    /\ orders = {}
    /\ pending.symbol \in DOMAIN instrument_data
    /\ instrument_data[pending.symbol].close # NoKey

\* C22: a quote that is missing or is not 'Ok' changes nothing where it is
\* consumed: the feed update leaves the CSV series, the cached frame and the
\* snapshot as they were, the position tick leaves the positions as they
\* were, and a round of the confirmation window leaves the snapshots as they
\* were.
C22_FailedQuoteMutatesNothing ==
    [][/\ DashSkip => UNCHANGED <<csv, data_cache, instrument_data>>
       /\ ManageSkip => UNCHANGED positions
       /\ \A q \in PollResponses \ OkQuotes, secs \in PollSeconds :
             ConfirmPollOn(q, secs) => UNCHANGED instrument_data]_vars

\* C23: a failure at one instrument leaves the sweep going: when the quote
\* fetch of the feed sweep raises at an instrument that is not the last one,
\* the sweep goes on to the next instrument, and when the signal sweep fails
\* at an instrument that is not the last one (in detect_signal or in the
\* quote fetch of enter_trade), it goes on to the next instrument.
C23_FailureKeepsSweeping ==
    [][/\ (DashRaises /\ di < Len(Instruments)) => (di' = di + 1 /\ dpc' = "feed")
       /\ ((ScanRaises \/ ConfirmRaises) /\ si < Len(Instruments))
             => (si' = si + 1 /\ pc' = "scan")]_vars

\* The ids of the orders in the broker's book.
OrderIds == {o.id : o \in orders}

C25_ExitPriceIsQuoted ==
    [][(ManageTick /\ DOMAIN positions' # DOMAIN positions)
          => \E q \in OkQuotes :
                /\ ManageTickOn(q)
                /\ closed_trades'[Len(closed_trades')].exit = TickCurr(q)]_vars

C27_LedgerKeepsNewest ==
    /\ [](/\ Len(closed_trades) <= LedgerCap
          /\ Len(closed_trades) = Min(trade_counter - 1, LedgerCap)
          /\ \A i \in 1..Len(closed_trades) :
                closed_trades[i].trade_no = trade_counter - 1 - Len(closed_trades) + i)
    /\ [][closed_trades' # closed_trades =>
            LET rec == closed_trades'[Len(closed_trades')] IN
            /\ rec.trade_no = trade_counter
            /\ closed_trades' = IF Len(closed_trades) < LedgerCap
                                THEN Append(closed_trades, rec)
                                ELSE Append(Tail(closed_trades), rec)]_vars

\* C27, its case: the ledger is full, three records have been evicted, and
\* the records it holds are not all alike.
C27_Witness ==
    /\ Len(closed_trades) = LedgerCap
    /\ closed_trades[1].trade_no = 4
    /\ Losses(closed_trades) # {}

\* Timestamp a is before timestamp b.
Before(a, b) == a[1] < b[1] \/ (a[1] = b[1] /\ a[2] < b[2])

\* The series holds at most one sample per timestamp.
OnePerTimestamp(rows) ==
    \A i, j \in 1..Len(rows) : rows[i].datetime = rows[j].datetime => i = j

\* The series is in timestamp order.
InTimestampOrder(rows) ==
    \A i, j \in 1..Len(rows) : i < j => Before(rows[i].datetime, rows[j].datetime)

\* C28: after any sequence of ingests the series holds at most one sample per
\* timestamp and is in timestamp order; an ingest at a timestamp the series
\* holds leaves its length as it was and makes the new sample the one sample
\* of that timestamp; an ingest at a new timestamp adds one sample; and
\* ingesting the sample just ingested once more leaves the series as it is.
C28_SeriesDedupOrdered ==
    /\ [](OnePerTimestamp(frame) /\ InTimestampOrder(frame))
    /\ [][\A q \in SampleQuotes, dt \in SampleTimes :
            frame' = DropDuplicates(Append(frame, Row(dt, q))) =>
                /\ Len(frame') = IF \E i \in 1..Len(frame) : frame[i].datetime = dt
                                 THEN Len(frame) ELSE Len(frame) + 1
                /\ \E i \in 1..Len(frame') : frame'[i] = Row(dt, q)
                /\ DropDuplicates(Append(frame', Row(dt, q))) = frame']_vars

\* The samples of the calendar date of sample i, up to and including i.
SessionUpTo(rows, i) ==
    {j \in 1..i : rows[j].datetime[1] = rows[i].datetime[1]}

\* The sum over the samples S of volume (zero counted as 1), and of
\* (high + low + close) x volume, which is 3 x typical x volume.
RECURSIVE SumVolume(_, _)
SumVolume(rows, S) ==
    IF S = {} THEN 0
    ELSE LET j == CHOOSE x \in S : TRUE
         IN (IF rows[j].volume = 0 THEN 1 ELSE rows[j].volume) + SumVolume(rows, S \ {j})
RECURSIVE SumTypicalVolume3(_, _)
SumTypicalVolume3(rows, S) ==
    IF S = {} THEN 0
    ELSE LET j == CHOOSE x \in S : TRUE
         IN (rows[j].high + rows[j].low + rows[j].close)
              * (IF rows[j].volume = 0 THEN 1 ELSE rows[j].volume)
            + SumTypicalVolume3(rows, S \ {j})

\* calculate_vwap gives, at every sample of the series, the VWAP of the
\* sample's calendar date up to that sample.
VwapIsSessionVwap(rows) ==
    \A i \in 1..Len(rows) :
        LET vwap == calculate_vwap(rows)[i].vwap
            S == SessionUpTo(rows, i)
        IN /\ vwap.d > 0
           /\ vwap.n * 3 * SumVolume(rows, S) = SumTypicalVolume3(rows, S) * vwap.d

Closes(rows) == [i \in 1..Len(rows) |-> rows[i].close]

\* The EMA of the reference series, as fractions: 100, 302/3, 907/9,
\* 2759/27, 8407/81.
ReferenceEma ==
    <<Frac(100, 1), Frac(302, 3), Frac(907, 9), Frac(2759, 27), Frac(8407, 81)>>

\* C30: on every series calculate_ema follows the recurrence ema[0] =
\* close[0], ema[t] = ema[t-1] + (close[t] - ema[t-1]) / 3, written here as
\* 3 x (ema[t] - ema[t-1]) = close[t] - ema[t-1]; on the closes 100, 102,
\* 101, 105, 107 it gives 100, 302/3, 907/9, 2759/27, 8407/81.
C30_EmaFollowsRecurrence ==
    LET ema == [i \in 1..Len(frame) |-> calculate_ema(frame)[i].ema] IN
    /\ \A t \in 1..Len(frame) :
          /\ ema[t].d > 0
          /\ t = 1 => ema[t].n = frame[t].close * ema[t].d
          /\ t > 1 =>
                3 * (ema[t].n * ema[t - 1].d - ema[t - 1].n * ema[t].d)
                  = (frame[t].close * ema[t - 1].d - ema[t - 1].n) * ema[t].d
    /\ Closes(frame) = ReferenceCloses =>
          \A t \in 1..Len(frame) :
              ema[t].n * ReferenceEma[t].d = ReferenceEma[t].n * ema[t].d

\* C30, its case: the series is the reference series.
C30_Witness ==
    Closes(frame) = ReferenceCloses

\* ---------------------------------------------------------------- C31
\* The positions an entry adds to the book.
Entered == {id \in DOMAIN positions' : id \notin DOMAIN positions}

\* C31: a position is stored with stop-loss and current stop at
\* entry x (1 - SL_PERCENT) when SL_PERCENT > 0 and at 50% of entry otherwise,
\* take-profit at entry x (1 + TP_PERCENT), both water marks at entry and
\* status OPEN; so for a positive entry price current_sl < entry < tp.
C31_EntryLevels ==
    [][\A id \in Entered :
          LET p == positions'[id]
          IN /\ 100 * p.sl = IF SL_PERCENT > 0 THEN p.entry * (100 - SL_PERCENT)
                                               ELSE p.entry * 50
             /\ p.current_sl = p.sl
             /\ 100 * p.tp = p.entry * (100 + TP_PERCENT)
             /\ p.high = p.entry
             /\ p.low = p.entry
             /\ p.status = "OPEN"
             /\ p.entry > 0 => (p.current_sl < p.entry /\ p.entry < p.tp)]_vars

\* A position just stored under the 50% default, none stored after it and no
\* tick on it yet.
C31_Witness ==
    \E id \in DOMAIN positions :
        /\ SL_PERCENT = 0
        /\ positions[id].trade_no = trade_counter - 1
        /\ positions[id].entry > 0
        /\ 2 * positions[id].current_sl = positions[id].entry
        /\ positions[id].high = positions[id].entry
        /\ positions[id].low = positions[id].entry

\* ---------------------------------------------------------------- C32
\* C32: every open position has low <= entry <= high,
\* max_mtm = (high - entry) x qty >= 0 and min_mtm = (low - entry) x qty <= 0,
\* and over a tick its high water mark never decreases and its low water mark
\* never increases.
C32_WaterMarks ==
    /\ [](\A id \in DOMAIN positions :
             LET p == positions[id]
             IN /\ p.low <= p.entry
                /\ p.entry <= p.high
                /\ p.max_mtm = (p.high - p.entry) * p.qty
                /\ p.max_mtm >= 0
                /\ p.min_mtm = (p.low - p.entry) * p.qty
                /\ p.min_mtm <= 0)
    /\ [][\A id \in DOMAIN positions \cap DOMAIN positions' :
             /\ positions'[id].high >= positions[id].high
             /\ positions'[id].low <= positions[id].low]_vars

\* A position ticked above and below its entry price and still open.
C32_Witness ==
    \E id \in DOMAIN positions :
        /\ positions[id].high > positions[id].entry
        /\ positions[id].low < positions[id].entry
        /\ positions[id].max_mtm > 0
        /\ positions[id].min_mtm < 0

DashAtSweepBoundary == dpc = "feed" /\ di = 1 /\ dit = NoIter

\* C34: the quit key and the loss limit end the decision loop at the top of a
\* cycle only; once the loop has been left, by whatever path, running is
\* false and the dashboard thread has ended at the boundary of a sweep, not
\* inside one.
C34_CooperativeCancellation ==
    /\ [](pc = "stopped" => (~running /\ DashAtSweepBoundary))
    /\ [][(pc # "stopped" /\ pc' = "stopped" /\ exitPath' \in {"QUIT", "LOSS_LIMIT"})
             => pc = "top"]_vars

\* ---------------------------------------------------------------- C35
\* C35: while enter_trade is in its confirmation window the decision loop
\* does nothing else: every position already open stays as it is, nothing is
\* closed or booked, the only order is the window's own buy and the only
\* position added is the window's own; the window is left only by its order
\* (on to the rest of the signal sweep) or by an exception or interrupt, never
\* by the loss limit, the trading hours or the shutdown flag; and no other
\* window is opened meanwhile.
C35_EntryBlocksLoop ==
    [][pc = "confirm" =>
          /\ \A id \in DOMAIN positions :
                id \in DOMAIN positions' /\ positions'[id] = positions[id]
          /\ \A id \in Entered :
                /\ positions'[id].symbol = pending.symbol
                /\ pc' # "confirm"
          /\ Cardinality(Entered) <= 1
          /\ UNCHANGED <<pnl, closed_trades, mq>>
          /\ \A o \in orders' \ orders : o.side = "B" /\ o.symbol = pending.symbol
          /\ pc' \in {"confirm", "scan", "top", "stopped"}
          /\ pc' = "stopped" => exitPath' \in {"EXCEPTION", "INTERRUPT"}
          /\ pc' # "stopped" => UNCHANGED <<running, exitPath>>
          /\ pc' = "confirm" =>
                /\ pending'.symbol = pending.symbol
                /\ pending'.signal = pending.signal
                /\ pending'.price = pending.price
                /\ pending'.elapsed >= pending.elapsed
                /\ UNCHANGED si]_vars

\* A confirmation window under way, after its first round, with a position
\* open on another instrument and the trading hours over.
C35_Witness ==
    /\ pc = "confirm"
    /\ pending.elapsed > 0
    /\ ~in_trading_hours
    /\ \E id \in DOMAIN positions : positions[id].symbol # pending.symbol

\* ---------------------------------------------------------------- C36
\* The records a close adds to the ledger (the ledger is below its cap).
Booked == {i \in 1..Len(closed_trades') : i > Len(closed_trades)}

\* C36: the price enter_trade is called with is the close of the last sample
\* of the cached series, on which the detector fired; it stays the same
\* through the confirmation window; it is the entry price of the position
\* stored, the base of its stop and target, and the entry price of the PnL
\* booked when the position is closed.
C36_EntryAtSignalPrice ==
    [][/\ (pc = "scan" /\ pc' = "confirm") =>
             LET df == data_cache[Instruments[si].symbol]
             IN /\ detect_signal(df)[1] = pending'.signal
                /\ pending'.price = df[Len(df)].close
       /\ (pc = "confirm" /\ pc' = "confirm") => pending'.price = pending.price
       /\ \A id \in Entered :
             /\ positions'[id].entry = pending.price
             /\ 100 * positions'[id].tp = pending.price * (100 + TP_PERCENT)
             /\ 100 * positions'[id].sl =
                   pending.price * (IF SL_PERCENT > 0 THEN 100 - SL_PERCENT ELSE 50)
       /\ \A id \in DOMAIN positions \cap DOMAIN positions' :
             positions'[id].entry = positions[id].entry
       /\ \A i \in Booked :
             \E id \in DOMAIN positions \ DOMAIN positions' :
                 /\ closed_trades'[i].trade_no = positions[id].trade_no
                 /\ closed_trades'[i].entry = positions[id].entry
                 /\ closed_trades'[i].pnl =
                       (closed_trades'[i].exit - positions[id].entry)
                           * positions[id].qty * PnlScale
                       - (positions[id].entry + closed_trades'[i].exit)
                           * positions[id].qty * CommissionNum]_vars

\* A position just stored whose window polled a price other than the one it
\* was entered at: the snapshot still shows the polled price.
C36_Witness ==
    \E id \in DOMAIN positions :
        /\ positions[id].trade_no = trade_counter - 1
        /\ positions[id].symbol \in DOMAIN instrument_data
        /\ instrument_data[positions[id].symbol].close # NoKey
        /\ instrument_data[positions[id].symbol].close # positions[id].entry

\* ---------------------------------------------------------------- C37
\* The positions VWAPStrategy.run stores in a step.
VwapEntered == {id \in DOMAIN vwap_positions' : id \notin DOMAIN vwap_positions}

\* C37: in VWAPStrategy, when a position is stored after a changed signal no
\* earlier position is still open, and the open set never holds more than one
\* position.
C37_SignalChangeClosesFirst ==
    /\ [][\A id \in VwapEntered : DOMAIN vwap_positions' = {id}]_vars
    /\ [](Cardinality(DOMAIN vwap_positions) <= 1)

\* ---------------------------------------------------------------- C38
\* The accepted sell orders placed for a position.
SellsFor(book, id) == {o \in book : o.side = "S" /\ o.position_id = id}

\* C38: in VWAPStrategy a position leaves the open set, and daily_pnl moves,
\* exactly when a sell order for it is accepted; so no position has more than
\* one accepted sell order, and a rejected sell changes neither the open set
\* nor daily_pnl.
C38_RemovedIffSold ==
    /\ [][/\ \A id \in DOMAIN vwap_positions :
                id \notin DOMAIN vwap_positions'
                    <=> SellsFor(vwap_orders', id) # SellsFor(vwap_orders, id)
          /\ daily_pnl' # daily_pnl =>
                \E id \in DOMAIN vwap_positions : id \notin DOMAIN vwap_positions']_vars
    /\ [](\A o \in vwap_orders : Cardinality(SellsFor(vwap_orders, o.position_id)) <= 1)

\* ---------------------------------------------------------------- C39
\* The n strikes of S nearest to atm below it, and above it.
NearestBelow(S, atm, n) ==
    {x \in S : x < atm /\ Cardinality({y \in S : x < y /\ y < atm}) < n}
NearestAbove(S, atm, n) ==
    {x \in S : x > atm /\ Cardinality({y \in S : atm < y /\ y < x}) < n}

\* C39: nearest_strikes returns, ascending and without duplicates, ATM when
\* it is listed, the n nearest listed strikes below ATM and the n nearest
\* listed strikes above ATM, whether or not ATM is listed.
C39_NearestStrikes ==
    LET S == selection.available
        atm == selection.atm
        n == selection.n
    IN selection # NoSelection =>
          selection.strikes =
             Sorted((S \cap {atm}) \cup NearestBelow(S, atm, n) \cup NearestAbove(S, atm, n))

====
